---- MODULE Spec2Model ----
(***************************************************************************)
(* Short-run MCMC training of an energy-based model: the persistent image  *)
(* bank s_t_0, the Langevin sampler sample_s_t and the training loop of    *)
(* train_data.py and train_toy.py.                                         *)
(*                                                                         *)
(* Tensors are sequences of rows; a row (one image / one 2D point) is one  *)
(* value of Vals.  The network f is opaque: its parameters are modelled by *)
(* the number of optimizer steps applied to them, and its input gradient   *)
(* by a nondeterministic choice in Grads.  The diagnostic records and the  *)
(* files on disk are modelled by how often each slot / file was written.   *)
(***************************************************************************)
EXTENDS Integers, Sequences, FiniteSets, TLC

\* ---------------------------------------------------------------- bounds
BankSize == 2       \* number of persistent images (s_t_0.shape[0])
MaxIters == 3       \* largest num_train_iters explored
MaxL == 2           \* largest number of Langevin steps explored

Vals == {0, 1}          \* values of one row of a state tensor
Grads == {0, 1}         \* values of one row of f_prime
Noises == {0, 1}        \* values of one row of t.randn_like(x_s_t)
Epsilons == {0, 1}      \* config['epsilon']
LRs == {1, 2, 4}        \* learning rates (lr_init, lr_min)
Decays == {<<1, 2>>, <<1, 1>>, <<2, 1>>}   \* lr_decay as numerator/denominator
BatchSizes == {1, BankSize, BankSize + 1}   \* below, at and above the bank size
InitNames == {"persistent", "data", "uniform", "gaussian", "bogus"}
Freqs == 1..(MaxIters - 1)

None == << -1 >>        \* Python's None in place of an index tensor

Min(a, b) == IF a < b THEN a ELSE b
Max(a, b) == IF a > b THEN a ELSE b
Range(s) == {s[k] : k \in 1..Len(s)}

\* ------------------------------------------------------- pure functions

\* seq[0:n] : Python slicing never fails, it stops at the end of seq
Slice(seq, n) == SubSeq(seq, 1, Min(n, Len(seq)))

\* the possible results of t.randperm(n): the orderings of 0..n-1
RandPerm(n) == {p \in [1..n -> 0..(n - 1)] : \A a, b \in 1..n : a # b => p[a] # p[b]}

\* variant drawing indices with replacement
RandIndsRepl(n, batch_size) == [1..Min(batch_size, n) -> 0..(n - 1)]

\* rand_inds of sample_image_set: t.randperm(n)[0:batch_size]
RandInds(n, batch_size) == {Slice(p, batch_size) : p \in RandPerm(n)}

\* variant writing the rows back shifted by one slot
IndexPutShift(bank, inds, x) ==
    [j \in DOMAIN bank |->
        IF \E k \in 1..Len(inds) : (inds[k] + 1) % BankSize = j
        THEN x[CHOOSE k \in 1..Len(inds) :
                   /\ (inds[k] + 1) % BankSize = j
                   /\ \A m \in (k + 1)..Len(inds) : (inds[m] + 1) % BankSize # j]
        ELSE bank[j]]

\* bank.data[inds] = x : row k of x goes to slot inds[k] (the last write to a slot stays)
IndexPut(bank, inds, x) ==
    [j \in DOMAIN bank |->
        IF \E k \in 1..Len(inds) : inds[k] = j
        THEN x[CHOOSE k \in 1..Len(inds) :
                   /\ inds[k] = j
                   /\ \A m \in (k + 1)..Len(inds) : inds[m] # j]
        ELSE bank[j]]

\* image_set[rand_inds]
Gather(bank, inds) == [k \in 1..Len(inds) |-> bank[inds[k]]]

\* variant without the lower clamp
AnnealNoFloor(c, rate) == (rate * c.lr_decay[1]) \div c.lr_decay[2]

\* max(config['lr_min'], lr_gp['lr'] * config['lr_decay']); rates are whole units
\* and the product is rounded down
AnnealLR(c, rate) == Max(c.lr_min, (rate * c.lr_decay[1]) \div c.lr_decay[2])

\* variant logging on multiples of log_freq only
LogCondNoFirst(c, k) == k % c.log_freq = 0

\* (i + 1) == 1 or (i + 1) % config['log_freq'] == 0, with k = i + 1
LogCond(c, k) == k = 1 \/ k % c.log_freq = 0

\* config['log_longrun'] and (i+1) % config['log_longrun_freq'] == 0   (train_data.py)
\* (i + 1) % config['log_viz_freq'] == 0                                (train_toy.py)
LongRunCond(c, k) ==
    /\ c.script = "toy" \/ c.log_longrun
    /\ k % c.log_longrun_freq = 0

\* arguments of the short-run call of the training loop
ShortRunArgs(c) ==
    [L |-> c.num_shortrun_steps, init_type |-> c.shortrun_init,
     update_s_t_0 |-> TRUE, batch_size |-> c.batch_size]

\* variant of the long-run call leaving update_s_t_0 at its default
LongRunArgsDefault(c) ==
    [L |-> c.num_longrun_steps, init_type |-> c.longrun_init,
     update_s_t_0 |-> TRUE,
     batch_size |-> IF c.script = "toy" THEN c.batch_size_kde ELSE c.batch_size]

\* arguments of the long-run / KDE call of the training loop
LongRunArgs(c) ==
    [L |-> c.num_longrun_steps, init_type |-> c.longrun_init,
     update_s_t_0 |-> FALSE,
     batch_size |-> IF c.script = "toy" THEN c.batch_size_kde ELSE c.batch_size]

\* number of rows sample_q returns: train_data.py slices the data tensor q
\* (one image per bank slot), train_toy.py asks the generator for batch_size rows
SampleQRows(c, batch_size) ==
    IF c.script = "data" THEN Min(batch_size, BankSize) ELSE batch_size

\* one row of x_s_t.data += - f_prime + config['epsilon'] * t.randn_like(x_s_t)
LangevinUpdate(x, f_prime, epsilon, noise) == x - f_prime + epsilon * noise

\* variant whose final else treats an unknown init_type as noise
InitBranchLenient(init_type) ==
    IF init_type = "persistent" THEN "persistent"
    ELSE IF init_type = "data" THEN "data"
    ELSE "noise"

\* the if / elif chain of sample_s_t_0
InitBranch(init_type) ==
    IF init_type = "persistent" THEN "persistent"
    ELSE IF init_type = "data" THEN "data"
    ELSE IF init_type = "uniform" THEN "noise"
    ELSE IF init_type = "gaussian" THEN "noise"
    ELSE "raise"

\* ------------------------------------------------------- configurations
BaseConfig ==
    [script |-> "data", batch_size |-> 1, batch_size_kde |-> 1,
     shortrun_init |-> "uniform", longrun_init |-> "uniform",
     num_shortrun_steps |-> 1, num_longrun_steps |-> 1,
     num_train_iters |-> 2, log_freq |-> 1,
     log_longrun |-> TRUE, log_longrun_freq |-> 2,
     lr_init |-> 2, lr_min |-> 1, lr_decay |-> <<1, 2>>, epsilon |-> 1]

\* <<shortrun_init, longrun_init>>: every policy against the persistent one
InitPairs ==
    {p \in InitNames \X InitNames : p[1] = "persistent" \/ p[2] = "persistent"}

\* train_data.py: the sampler's options vary
DataSamplerConfigs ==
    {[BaseConfig EXCEPT !.batch_size = b, !.batch_size_kde = b,
                        !.shortrun_init = p[1], !.longrun_init = p[2],
                        !.num_shortrun_steps = l, !.num_longrun_steps = MaxL,
                        !.epsilon = e] :
        b \in BatchSizes, l \in 1..MaxL, e \in Epsilons, p \in InitPairs}

\* train_toy.py: one init_type and one num_mcmc_steps for both calls
ToySamplerConfigs ==
    {[BaseConfig EXCEPT !.script = "toy", !.batch_size = b, !.batch_size_kde = bk,
                        !.shortrun_init = si, !.longrun_init = si,
                        !.num_shortrun_steps = l, !.num_longrun_steps = l,
                        !.epsilon = e] :
        b \in {1, BankSize}, bk \in BatchSizes, si \in InitNames,
        l \in 1..MaxL, e \in Epsilons}

\* the loop's options vary
LoopConfigs ==
    {[BaseConfig EXCEPT !.num_train_iters = n, !.log_freq = lf,
                        !.log_longrun = ll, !.log_longrun_freq = llf,
                        !.shortrun_init = si] :
        n \in 0..MaxIters, lf \in Freqs, ll \in BOOLEAN, llf \in Freqs,
        si \in {"persistent", "uniform"}}

\* the learning-rate options vary
LRConfigs ==
    {[BaseConfig EXCEPT !.num_train_iters = MaxIters, !.lr_init = a,
                        !.lr_min = m, !.lr_decay = d, !.log_longrun = FALSE,
                        !.log_freq = MaxIters - 1] :
        a \in LRs, m \in LRs, d \in Decays}

Configs == DataSamplerConfigs \cup ToySamplerConfigs \cup LoopConfigs \cup LRConfigs

\* ---------------------------------------------------------------- state
VARIABLES
    config,         \* the loaded experiment config
    s_t_0,          \* persistent image bank: slot -> row
    f,              \* network parameters: number of optimizer steps applied
    lr,             \* lr of the optimizer's parameter group
    i,              \* loop variable of the training loop
    pc,             \* position of the script
    steps,          \* the steps of the current iteration, in execution order
    call,           \* arguments of the running sample_s_t call, or None
    x_q,            \* number of rows of the positive batch
    x_s_t,          \* the MCMC samples of the running / last sample_s_t call
    s_t_0_inds,     \* bank indices chosen by sample_s_t_0, or None
    ell,            \* Langevin steps done in the running call
    d_s_t_record,   \* slot -> number of writes
    r_s_t_record,   \* slot -> number of writes
    checkpoints,    \* 1-based iteration -> number of t.save calls
    plots,          \* 1-based iteration -> number of plot_diagnostics calls
    longruns        \* number of long-run sample_s_t calls started so far

vars == <<config, s_t_0, f, lr, i, pc, steps, call, x_q, x_s_t, s_t_0_inds, ell,
          d_s_t_record, r_s_t_record, checkpoints, plots, longruns>>

loopvars == <<d_s_t_record, r_s_t_record, checkpoints, plots, lr>>
samplevars == <<call, x_s_t, s_t_0_inds, ell>>

NoCall == [L |-> 0, init_type |-> "none", update_s_t_0 |-> FALSE, batch_size |-> 0]

Init ==
    /\ config \in Configs
    /\ s_t_0 \in [0..(BankSize - 1) -> Vals]
    /\ f = 0
    /\ lr = config.lr_init
    /\ i = 0
    /\ pc = "loop"
    /\ steps = <<>>
    /\ call = NoCall
    /\ x_q = 0
    /\ x_s_t = <<>>
    /\ s_t_0_inds = None
    /\ ell = 0
    /\ d_s_t_record = [k \in 0..(config.num_train_iters - 1) |-> 0]
    /\ r_s_t_record = [k \in 0..(config.num_train_iters - 1) |-> 0]
    /\ checkpoints = [k \in 1..config.num_train_iters |-> 0]
    /\ plots = [k \in 1..config.num_train_iters |-> 0]
    /\ longruns = 0

\* ------------------------------------------------------- training loop

\* variant leaving the loop one iteration early
LoopExitEarly ==
    /\ pc = "loop"
    /\ i + 1 >= config.num_train_iters
    /\ pc' = "done"
    /\ UNCHANGED <<config, s_t_0, f, i, steps, x_q, longruns>>
    /\ UNCHANGED loopvars
    /\ UNCHANGED samplevars

\* for i in range(num_train_iters): the range is exhausted
LoopExit ==
    /\ pc = "loop"
    /\ i >= config.num_train_iters
    /\ pc' = "done"
    /\ UNCHANGED <<config, s_t_0, f, i, steps, x_q, longruns>>
    /\ UNCHANGED loopvars
    /\ UNCHANGED samplevars

\* x_q = sample_q()
SampleQ ==
    /\ pc = "loop"
    /\ i < config.num_train_iters
    /\ x_q' = SampleQRows(config, config.batch_size)
    /\ steps' = <<"sample_q">>
    /\ pc' = "shortrun"
    /\ UNCHANGED <<config, s_t_0, f, i, longruns>>
    /\ UNCHANGED loopvars
    /\ UNCHANGED samplevars

\* x_s_t, r_s_t = sample_s_t(...): the call is entered
ShortRunCall ==
    /\ pc = "shortrun"
    /\ call' = ShortRunArgs(config)
    /\ ell' = 0
    /\ steps' = Append(steps, "sample_s_t")
    /\ pc' = "sample_s_t_0"
    /\ UNCHANGED <<config, s_t_0, f, i, x_q, x_s_t, s_t_0_inds, longruns>>
    /\ UNCHANGED loopvars

\* ------------------------------------------------------------- sampler

\* sample_s_t_0() and x_s_t = Variable(x_s_t_0.clone())
SampleInit ==
    /\ pc = "sample_s_t_0"
    /\ \/ /\ InitBranch(call.init_type) = "persistent"
          /\ \E inds \in RandInds(BankSize, call.batch_size) :
                /\ s_t_0_inds' = inds
                /\ x_s_t' = Gather(s_t_0, inds)
          /\ pc' = "langevin"
       \/ /\ InitBranch(call.init_type) = "data"
          /\ x_s_t' \in [1..SampleQRows(config, call.batch_size) -> Vals]
          /\ s_t_0_inds' = None
          /\ pc' = "langevin"
       \/ /\ InitBranch(call.init_type) = "noise"
          /\ x_s_t' \in [1..call.batch_size -> Vals]
          /\ s_t_0_inds' = None
          /\ pc' = "langevin"
       \/ /\ InitBranch(call.init_type) = "raise"
          /\ pc' = "failed"
          /\ UNCHANGED <<x_s_t, s_t_0_inds>>
    /\ UNCHANGED <<config, s_t_0, f, i, steps, call, x_q, ell, longruns>>
    /\ UNCHANGED loopvars

\* one pass of "for ell in range(L)": every row moves by its own gradient and
\* noise (the rows explored are those whose new value stays in Vals)
LangevinStep ==
    /\ pc = "langevin"
    /\ ell < call.L
    /\ x_s_t' \in [1..Len(x_s_t) -> Vals]
    /\ \A k \in 1..Len(x_s_t) :
          x_s_t'[k] \in {LangevinUpdate(x_s_t[k], f_prime, config.epsilon, noise) :
                            f_prime \in Grads, noise \in Noises}
    /\ ell' = ell + 1
    /\ UNCHANGED <<config, s_t_0, f, i, pc, steps, call, x_q, s_t_0_inds, longruns>>
    /\ UNCHANGED loopvars

\* after the loop: the bank update and "return x_s_t.detach(), r_s_t.squeeze() / L"
SampleReturn ==
    /\ pc = "langevin"
    /\ ell >= call.L
    /\ s_t_0' = IF call.init_type = "persistent" /\ call.update_s_t_0
                THEN IndexPut(s_t_0, s_t_0_inds, x_s_t)
                ELSE s_t_0
    /\ pc' = "returned"
    /\ UNCHANGED <<config, f, i, steps, call, x_q, x_s_t, s_t_0_inds, ell, longruns>>
    /\ UNCHANGED loopvars

\* ----------------------------------------------- training loop, continued

\* d_s_t = f(x_q).mean() - f(x_s_t).mean(), rescaled when epsilon > 0
Loss ==
    /\ pc = "returned"
    /\ steps[Len(steps)] = "sample_s_t"
    /\ steps' = Append(steps, "loss")
    /\ pc' = "backward"
    /\ UNCHANGED <<config, s_t_0, f, i, x_q, longruns>>
    /\ UNCHANGED loopvars
    /\ UNCHANGED samplevars

\* variant going on to the records without optim.step()
BackwardNoStep ==
    /\ pc = "backward"
    /\ steps' = Append(steps, "backward")
    /\ pc' = "record"
    /\ UNCHANGED <<config, s_t_0, f, i, x_q, longruns>>
    /\ UNCHANGED loopvars
    /\ UNCHANGED samplevars

\* optim.zero_grad(); d_s_t.backward()
Backward ==
    /\ pc = "backward"
    /\ steps' = Append(steps, "backward")
    /\ pc' = "optim_step"
    /\ UNCHANGED <<config, s_t_0, f, i, x_q, longruns>>
    /\ UNCHANGED loopvars
    /\ UNCHANGED samplevars

\* optim.step()
OptimStep ==
    /\ pc = "optim_step"
    /\ f' = f + 1
    /\ steps' = Append(steps, "optim_step")
    /\ pc' = "record"
    /\ UNCHANGED <<config, s_t_0, i, x_q, longruns>>
    /\ UNCHANGED loopvars
    /\ UNCHANGED samplevars

\* d_s_t_record[i] = ...; r_s_t_record[i] = r_s_t
Record ==
    /\ pc = "record"
    /\ d_s_t_record' = [d_s_t_record EXCEPT ![i] = @ + 1]
    /\ r_s_t_record' = [r_s_t_record EXCEPT ![i] = @ + 1]
    /\ steps' = Append(steps, "record")
    /\ pc' = "anneal"
    /\ UNCHANGED <<config, s_t_0, f, i, x_q, checkpoints, plots, lr, longruns>>
    /\ UNCHANGED samplevars

\* for lr_gp in optim.param_groups: lr_gp['lr'] = max(lr_min, lr * lr_decay)
Anneal ==
    /\ pc = "anneal"
    /\ lr' = AnnealLR(config, lr)
    /\ steps' = Append(steps, "anneal")
    /\ pc' = "log"
    /\ UNCHANGED <<config, s_t_0, f, i, x_q, d_s_t_record, r_s_t_record,
                   checkpoints, plots, longruns>>
    /\ UNCHANGED samplevars

\* print and save learning info
LogInfo ==
    /\ pc = "log"
    /\ IF LogCond(config, i + 1)
       THEN /\ checkpoints' = [checkpoints EXCEPT ![i + 1] = @ + 1]
            /\ plots' = IF (i + 1) > 1
                        THEN [plots EXCEPT ![i + 1] = @ + 1]
                        ELSE plots
       ELSE UNCHANGED <<checkpoints, plots>>
    /\ steps' = Append(steps, "log")
    /\ pc' = "longrun"
    /\ UNCHANGED <<config, s_t_0, f, i, x_q, d_s_t_record, r_s_t_record, lr, longruns>>
    /\ UNCHANGED samplevars

\* the long-run condition holds: sample_s_t(..., update_s_t_0=False) is entered
LongRunCall ==
    /\ pc = "longrun"
    /\ LongRunCond(config, i + 1)
    /\ call' = LongRunArgs(config)
    /\ ell' = 0
    /\ longruns' = longruns + 1
    /\ steps' = Append(steps, "longrun")
    /\ pc' = "sample_s_t_0"
    /\ UNCHANGED <<config, s_t_0, f, i, x_q, x_s_t, s_t_0_inds>>
    /\ UNCHANGED loopvars

\* the long-run condition fails: next iteration
LongRunSkip ==
    /\ pc = "longrun"
    /\ ~LongRunCond(config, i + 1)
    /\ i' = i + 1
    /\ pc' = "loop"
    /\ UNCHANGED <<config, s_t_0, f, steps, x_q, longruns>>
    /\ UNCHANGED loopvars
    /\ UNCHANGED samplevars

\* plot_ims / plot_toy_density of the long-run samples, then next iteration
LongRunPlot ==
    /\ pc = "returned"
    /\ steps[Len(steps)] = "longrun"
    /\ i' = i + 1
    /\ pc' = "loop"
    /\ UNCHANGED <<config, s_t_0, f, steps, x_q, longruns>>
    /\ UNCHANGED loopvars
    /\ UNCHANGED samplevars

Next ==
    \/ LoopExit
    \/ SampleQ
    \/ ShortRunCall
    \/ SampleInit
    \/ LangevinStep
    \/ SampleReturn
    \/ Loss
    \/ Backward
    \/ OptimStep
    \/ Record
    \/ Anneal
    \/ LogInfo
    \/ LongRunCall
    \/ LongRunSkip
    \/ LongRunPlot

Spec == Init /\ [][Next]_vars

\* runs whose loop options vary; the interpreter keeps executing the script
LoopInit == Init /\ config \in LoopConfigs
FairSpec == LoopInit /\ [][Next]_vars /\ WF_vars(Next)

\* ---------------------------------------------------------------- claims

InSampler == pc \in {"sample_s_t_0", "langevin"}
Persistent == call.init_type = "persistent"
WriteBack == Persistent /\ call.update_s_t_0
Fits == call.batch_size <= BankSize
Changed == {j \in DOMAIN s_t_0 : s_t_0'[j] # s_t_0[j]}
LastStep == IF steps = <<>> THEN "none" ELSE steps[Len(steps)]
IsPrefix(s, t) == Len(s) <= Len(t) /\ \A k \in 1..Len(s) : s[k] = t[k]
Distinct(s) == \A a, b \in 1..Len(s) : a # b => s[a] # s[b]

\* C1: a persistent call with write-back and batch_size <= N leaves, on return,
\* every selected bank slot equal to the matching row of the returned state and
\* every other slot as it was; the bank is not written while the Langevin steps
\* run, only once after them.
ClaimC1 ==
    /\ []((pc = "returned" /\ WriteBack /\ Fits) =>
             \A k \in 1..Len(s_t_0_inds) : s_t_0[s_t_0_inds[k]] = x_s_t[k])
    /\ [][(InSampler /\ WriteBack /\ Fits) =>
             IF pc' = "returned"
             THEN Changed \subseteq Range(s_t_0_inds)
             ELSE s_t_0' = s_t_0]_vars

WitnessC1 ==
    /\ pc = "returned"
    /\ WriteBack
    /\ ell = MaxL
    /\ Len(s_t_0_inds) = 1
    /\ BankSize > 1
    /\ \E j \in DOMAIN s_t_0 : j \notin Range(s_t_0_inds) /\ s_t_0[j] # x_s_t[1]

\* C2: a persistent call asking for more rows than the bank holds fails; it never
\* returns fewer than batch_size rows.
ClaimC2 ==
    (Persistent /\ call.batch_size > BankSize) =>
        /\ pc \in {"sample_s_t_0", "failed"}
        /\ ~(pc = "returned" /\ Len(x_s_t) < call.batch_size)

\* C3: the long-run / diagnostic call (update_s_t_0 = False) changes no bank slot,
\* whatever its init policy; the bank changes only inside the short-run call.
ClaimC3 ==
    /\ [][(InSampler /\ ~call.update_s_t_0) => s_t_0' = s_t_0]_vars
    /\ [][(s_t_0' # s_t_0) => (LastStep = "sample_s_t" /\ pc = "langevin")]_vars

WitnessC3 ==
    /\ pc = "returned"
    /\ LastStep = "longrun"
    /\ Persistent
    /\ x_s_t # Gather(s_t_0, s_t_0_inds)

\* C4: a call with init_type uniform, gaussian or data leaves the bank as it was,
\* for either value of update_s_t_0, and returns exactly batch_size rows.
ClaimC4 ==
    /\ []((pc = "returned" /\ call.init_type \in {"uniform", "gaussian", "data"}) =>
             Len(x_s_t) = call.batch_size)
    /\ [][(InSampler /\ call.init_type \in {"uniform", "gaussian", "data"}) =>
             s_t_0' = s_t_0]_vars

\* C5 as stated: batch_size pairwise distinct indices in [0, N), the starting state
\* is the bank at those indices, and the write-back changes exactly those slots.
ClaimC5Orig ==
    /\ []((pc \in {"langevin", "returned"} /\ Persistent /\ Fits) =>
             /\ Len(s_t_0_inds) = call.batch_size
             /\ Distinct(s_t_0_inds)
             /\ Range(s_t_0_inds) \subseteq 0..(BankSize - 1))
    /\ []((pc = "langevin" /\ ell = 0 /\ Persistent /\ Fits) =>
             x_s_t = Gather(s_t_0, s_t_0_inds))
    /\ [][(pc = "langevin" /\ pc' = "returned" /\ WriteBack /\ Fits) =>
             Changed = Range(s_t_0_inds)]_vars

\* C5 amended: batch_size pairwise distinct indices in [0, N), the starting state
\* is the bank at those indices, and the write-back overwrites exactly those slots
\* with the final rows: no other slot changes, and a selected slot keeps its value
\* when its chain ends where it started.
ClaimC5 ==
    /\ []((pc \in {"langevin", "returned"} /\ Persistent /\ Fits) =>
             /\ Len(s_t_0_inds) = call.batch_size
             /\ Distinct(s_t_0_inds)
             /\ Range(s_t_0_inds) \subseteq 0..(BankSize - 1))
    /\ []((pc = "langevin" /\ ell = 0 /\ Persistent /\ Fits) =>
             x_s_t = Gather(s_t_0, s_t_0_inds))
    /\ [][(pc = "langevin" /\ pc' = "returned" /\ WriteBack /\ Fits) =>
             /\ Changed \subseteq Range(s_t_0_inds)
             /\ \A j \in Range(s_t_0_inds) :
                   s_t_0'[j] # s_t_0[j] <=>
                       \E k \in 1..Len(s_t_0_inds) :
                           s_t_0_inds[k] = j /\ x_s_t[k] # s_t_0[j]]_vars

WitnessC5 ==
    /\ pc = "returned"
    /\ WriteBack
    /\ call.batch_size = BankSize
    /\ BankSize > 1
    /\ ell >= 1
    /\ x_s_t[1] # x_s_t[2]

\* the learning rate after n anneals of a run started at lr_init
RECURSIVE ExpectedLR(_, _)
ExpectedLR(c, n) ==
    IF n = 0 THEN c.lr_init
    ELSE LET r == (ExpectedLR(c, n - 1) * c.lr_decay[1]) \div c.lr_decay[2]
         IN IF r < c.lr_min THEN c.lr_min ELSE r

\* the anneal of the current iteration has run
Annealed == pc \notin {"loop", "done"} /\ "anneal" \in Range(steps)

\* C6 as stated: the learning rate is never below lr_min, for any lr_init, lr_min
\* and lr_decay, and is annealed exactly once in every iteration.
ClaimC6Orig ==
    /\ lr >= config.lr_min
    /\ lr = ExpectedLR(config, IF Annealed THEN i + 1 ELSE i)

\* C6 amended: from the first anneal on the learning rate is never below lr_min
\* (until then it is lr_init, which may be configured below lr_min), and lr is
\* annealed exactly once in every iteration, logging or not.
ClaimC6 ==
    /\ (i >= 1 \/ Annealed) => lr >= config.lr_min
    /\ lr = ExpectedLR(config, IF Annealed THEN i + 1 ELSE i)

WitnessC6 ==
    /\ pc = "done"
    /\ i = MaxIters
    /\ config.lr_init < config.lr_min
    /\ config.lr_decay[1] < config.lr_decay[2]
    /\ lr = config.lr_min
    /\ \E k \in 1..i : ~(k = 1 \/ k % config.log_freq = 0)

\* C7: an init_type outside persistent, data, uniform, gaussian makes the call
\* raise before any Langevin step, with the bank and the parameters as they were;
\* the error comes at the first call that uses that init policy.
ClaimC7 ==
    /\ []((call # NoCall /\ call.init_type \notin {"persistent", "data", "uniform", "gaussian"}) =>
             /\ pc \in {"sample_s_t_0", "failed"}
             /\ ell = 0)
    /\ [](pc = "failed" =>
             /\ call.init_type \notin {"persistent", "data", "uniform", "gaussian"}
             /\ LastStep = "sample_s_t" => i = 0
             /\ LastStep = "longrun" => longruns = 1
             /\ (config.shortrun_init = config.longrun_init) => i = 0)
    /\ [][(pc \in {"shortrun", "longrun", "sample_s_t_0"} /\ pc' \in {"sample_s_t_0", "failed"}) =>
             (s_t_0' = s_t_0 /\ f' = f)]_vars

WitnessC7 ==
    /\ pc = "failed"
    /\ LastStep = "longrun"
    /\ f >= 1
    /\ config.shortrun_init = "persistent"

\* C8: the loop ends, after exactly num_train_iters iterations and not before;
\* iteration i writes slot i of d_s_t_record and of r_s_t_record once, no slot is
\* written again, and at the end every slot has been written.
Recorded(k) == k < i \/ (k = i /\ pc \notin {"loop", "done"} /\ "record" \in Range(steps))

ClaimC8 ==
    /\ [](\A k \in DOMAIN d_s_t_record :
             /\ d_s_t_record[k] = (IF Recorded(k) THEN 1 ELSE 0)
             /\ r_s_t_record[k] = (IF Recorded(k) THEN 1 ELSE 0))
    /\ [](pc = "done" => i = config.num_train_iters)
    /\ [](i <= config.num_train_iters)
    /\ [][pc # "done"]_vars
    /\ [][\A k \in DOMAIN d_s_t_record :
             (d_s_t_record[k] = 1 => d_s_t_record'[k] = 1)
             /\ (r_s_t_record[k] = 1 => r_s_t_record'[k] = 1)]_vars
    /\ <>(pc = "done")

WitnessC8 ==
    /\ pc = "done"
    /\ i = MaxIters
    /\ longruns >= 1
    /\ \A k \in 0..(MaxIters - 1) : d_s_t_record[k] = 1 /\ r_s_t_record[k] = 1

\* C9: iteration k (1-based) saves a checkpoint exactly when k = 1 or k is a
\* multiple of log_freq, never twice; the diagnostic plots are made on those
\* iterations with k > 1 only; a run of one iteration saves one checkpoint.
Logged(k) == k <= i \/ (k = i + 1 /\ pc \notin {"loop", "done"} /\ "log" \in Range(steps))

ClaimC9 ==
    /\ \A k \in DOMAIN checkpoints :
          /\ checkpoints[k] =
                (IF Logged(k) /\ (k = 1 \/ k % config.log_freq = 0) THEN 1 ELSE 0)
          /\ plots[k] =
                (IF Logged(k) /\ k > 1 /\ (k = 1 \/ k % config.log_freq = 0) THEN 1 ELSE 0)
    /\ (pc = "done" /\ config.num_train_iters = 1) =>
          (i = 1 /\ checkpoints[1] = 1 /\ plots[1] = 0)

WitnessC9 ==
    /\ pc = "done"
    /\ i = MaxIters
    /\ config.log_freq > 1
    /\ \E k \in 2..i : checkpoints[k] = 1 /\ plots[k] = 1
    /\ \E k \in 2..i : checkpoints[k] = 0 /\ plots[k] = 0

\* C10: an iteration runs positive draw, short-run draw (with its bank
\* write-back), loss, backward pass, optimizer step, record, anneal in that order;
\* the parameters change in the optimizer step only, once per iteration, and no
\* sampler call changes them.
IterationOrder ==
    <<"sample_q", "sample_s_t", "loss", "backward", "optim_step", "record",
      "anneal", "log", "longrun">>

ClaimC10 ==
    /\ [](IsPrefix(steps, IterationOrder))
    /\ [](f = (IF pc \notin {"loop", "done"} /\ "optim_step" \in Range(steps) THEN i + 1 ELSE i))
    /\ [][(f' # f) => (pc = "optim_step" /\ LastStep = "backward")]_vars
    /\ [][(InSampler \/ pc' \in {"sample_s_t_0", "returned"}) => f' = f]_vars
    /\ [][(s_t_0' # s_t_0) => (LastStep = "sample_s_t" /\ pc' = "returned" /\ f = i)]_vars

WitnessC10 ==
    /\ pc = "returned"
    /\ LastStep = "longrun"
    /\ i >= 1
    /\ f = i + 1
    /\ config.shortrun_init = "persistent"
    /\ ell = MaxL

====
